---- MODULE Spec2Model ----
(***************************************************************************)
(* Parametric 3D editor: parameter validation, dynamic constraint          *)
(* resolution, geometry builders' guards, and the page / panel / model     *)
(* container flow that commits parameter vectors and builds models.        *)
(*                                                                         *)
(* Lengths are integers in micrometres (1000 per millimetre), so          *)
(* the schema steps 0.1 and 0.5 and the derived quantities diameter/2,     *)
(* diameter/4 and diameter*0.6 are exact.  Counts (ridgeCount, holeRows,   *)
(* ...) are scaled the same way, as the code treats every parameter as a   *)
(* number with min, max and step.  A parameter vector is a function whose  *)
(* domain is the set of parameters that are present (not undefined).       *)
(***************************************************************************)
EXTENDS Integers, Sequences, FiniteSets, TLC

VARIABLES
    product,            \* adjust: the product whose schema and calculator are used
    input,              \* adjust: the vector handed to adjustToValidConstraints
    adjusted,           \* adjust: the local copy being repaired
    changed,            \* adjust: the loop's changed flag
    iterations,         \* adjust: the loop's pass counter
    apc,                \* adjust: "loop" while in the while loop, "done" after return
    run,                \* adjust: 1 for adjust(v), 2 for adjust(adjust(v))
    firstResult,        \* adjust: the vector returned by run 1 (<<>> before)
    validation,         \* pure calls: result of validateParameters on input
    dynamicConstraints, \* pure calls: result of calculateDynamicConstraints on input
    buildOutcome,       \* pure calls: outcome of the product's builder on input
    called,             \* pure calls: which of the three have been applied
    parameters,         \* page: the committed parameter vector (useState parameters)
    localValues,        \* panel: the vector shown in the controls
    debounceTimer,      \* panel: the pending debounce timer and the newValues it closed over
    changeDebounceTimer,\* controls: pending typed-input timers, by parameter id
    lastFire,           \* panel: what the last debounce timer did (history)
    burst,              \* panel: edits since the timer was last idle, up to MaxBurst (history)
    mesh,               \* container: displayed mesh, 0 for null, else the id of its request
    shape,              \* container: shape kept for export, 0 for null, else its request id
    loading,            \* container: loading flag
    error,              \* container: displayed error, "" for null
    generationIdRef,    \* container: id of the latest request
    previousMeshRef,    \* container: mesh to dispose on replacement, 0 for null
    inflight,           \* container: ids of the generateModel calls not yet completed
    requestParams,      \* container: the parameters each generateModel call closed over
    threeMeshes,        \* container: the meshes createMeshFromShape made (history)
    disposals,          \* container: the meshes disposed (history)
    completedOrder,     \* container: ids of the completed calls, in order (history)
    mounted,            \* container: whether the page with its components is mounted
    disposedTwice,      \* container: the meshes disposed a second time (history)
    adjustOutputs,      \* page: the vectors adjustToValidConstraints returned (history)
    loaded,             \* replicadInit: the module's loaded flag
    initPromise,        \* replicadInit: 0 for null, else the id of the promise stored
    promises,           \* replicadInit: state of each initialization promise, by id
    received,           \* replicadInit: what each initReplicad call returned (history)
    loadsStarted,       \* replicadInit: how often the kernel loader was called (history)
    setOCCalls          \* replicadInit: how often setOC was called (history)

adjustVars == <<product, input, adjusted, changed, iterations, apc, run, firstResult>>
validateVars == <<validation, dynamicConstraints, buildOutcome, called>>
panelVars ==
    <<parameters, localValues, debounceTimer, changeDebounceTimer, lastFire, burst,
      adjustOutputs>>
containerVars ==
    <<mesh, shape, loading, error, generationIdRef, previousMeshRef, inflight,
      requestParams, threeMeshes, disposals, completedOrder, mounted, disposedTwice>>
initVars == <<loaded, initPromise, promises, received, loadsStarted, setOCCalls>>
pageVars == <<panelVars, containerVars, initVars>>
vars == <<adjustVars, validateVars, pageVars>>

-----------------------------------------------------------------------------
(* Units and bounds *)

\* millimetres to micrometres
mm(x) == x * 1000

\* at most this many parameters are absent from an input vector
MaxMissing == 1

\* at most this many generateModel calls are issued in a session
MaxGen == 3

\* at most this many initReplicad calls are made
MaxInitCalls == 4

\* the count of the edits of one burst stops at this number
MaxBurst == 3

\* at most this many re-renders follow one change through the controls' effects
MaxCascade == 3

Products == {"hoseAdapter", "drainStrainer", "threadAdapter"}

-----------------------------------------------------------------------------
(* Parameter schemas *)

Def(mn, mx, df, st, pr) ==
    [min |-> mn, max |-> mx, default |-> df, step |-> st, precision |-> pr]

HOSE_ADAPTER_SCHEMA ==
    [ innerDiameter |-> Def(10000, 100000, 32000, 500, 1),
      outerDiameter |-> Def(15000, 150000, 38000, 500, 1),
      length        |-> Def(20000, 200000, 60000, 1000, 0),
      wallThickness |-> Def(1000, 10000, 2000, 100, 1),
      taperLength   |-> Def(10000, 150000, 40000, 1000, 0),
      ridgeCount    |-> Def(0, 8000, 3000, 1000, 0),
      ridgeDepth    |-> Def(0, 3000, 800, 100, 1),
      ridgeWidth    |-> Def(1000, 10000, 3000, 500, 1) ]

DRAIN_STRAINER_SCHEMA_HoleMax12 ==
    [ diameter      |-> Def(40000, 120000, 75000, 1000, 0),
      depth         |-> Def(10000, 50000, 20000, 1000, 0),
      rimHeight     |-> Def(1000, 5000, 2000, 500, 1),
      wallThickness |-> Def(1000, 4000, 1500, 100, 1),
      holeDiameter  |-> Def(2000, 12000, 4000, 500, 1),
      holeRows      |-> Def(2000, 6000, 3000, 1000, 0),
      holesPerRow   |-> Def(4000, 16000, 8000, 1000, 0),
      centerPost    |-> Def(0, 20000, 10000, 1000, 0) ]

DRAIN_STRAINER_SCHEMA ==
    [ diameter      |-> Def(40000, 120000, 75000, 1000, 0),
      depth         |-> Def(10000, 50000, 20000, 1000, 0),
      rimHeight     |-> Def(1000, 5000, 2000, 500, 1),
      wallThickness |-> Def(1000, 4000, 1500, 100, 1),
      holeDiameter  |-> Def(2000, 10000, 4000, 500, 1),
      holeRows      |-> Def(2000, 6000, 3000, 1000, 0),
      holesPerRow   |-> Def(4000, 16000, 8000, 1000, 0),
      centerPost    |-> Def(0, 20000, 10000, 1000, 0) ]

THREAD_ADAPTER_SCHEMA ==
    [ threadADiameter |-> Def(10000, 80000, 28000, 500, 1),
      threadAPitch    |-> Def(500, 5000, 2000, 100, 1),
      threadAType     |-> Def(0, 1000, 0, 1000, 0),
      threadALength   |-> Def(5000, 30000, 10000, 1000, 0),
      threadBDiameter |-> Def(10000, 80000, 38000, 500, 1),
      threadBPitch    |-> Def(500, 5000, 2500, 100, 1),
      threadBType     |-> Def(0, 1000, 1000, 1000, 0),
      threadBLength   |-> Def(5000, 30000, 10000, 1000, 0),
      bodyLength      |-> Def(10000, 50000, 20000, 1000, 0),
      hexGripSize     |-> Def(0, 60000, 0, 1000, 0),
      hollow          |-> Def(0, 1000, 1000, 1000, 0) ]

\* Object.entries order of each schema
HoseKeys ==
    << "innerDiameter", "outerDiameter", "length", "wallThickness",
       "taperLength", "ridgeCount", "ridgeDepth", "ridgeWidth" >>

DrainKeys ==
    << "diameter", "depth", "rimHeight", "wallThickness",
       "holeDiameter", "holeRows", "holesPerRow", "centerPost" >>

ThreadKeys ==
    << "threadADiameter", "threadAPitch", "threadAType", "threadALength",
       "threadBDiameter", "threadBPitch", "threadBType", "threadBLength",
       "bodyLength", "hexGripSize", "hollow" >>

baseSchema(p) ==
    CASE p = "hoseAdapter"   -> HOSE_ADAPTER_SCHEMA
      [] p = "drainStrainer" -> DRAIN_STRAINER_SCHEMA
      [] p = "threadAdapter" -> THREAD_ADAPTER_SCHEMA

SchemaEntries(p) ==
    CASE p = "hoseAdapter"   -> HoseKeys
      [] p = "drainStrainer" -> DrainKeys
      [] p = "threadAdapter" -> ThreadKeys

getDefaultValues(schema) == [k \in DOMAIN schema |-> schema[k].default]

-----------------------------------------------------------------------------
(* JavaScript helpers *)

\* values[k] !== undefined
Has(v, k) == k \in DOMAIN v

\* values[k] used as a condition: present and not 0
Truthy(v, k) == Has(v, k) /\ v[k] # 0

\* x || d on numbers
OrElse(x, d) == IF x # 0 THEN x ELSE d

Min2(a, b) == IF a < b THEN a ELSE b

Max2(a, b) == IF a > b THEN a ELSE b

Abs(a) == IF a < 0 THEN -a ELSE a

\* Math.round(n / d) for d > 0: nearest integer, halves towards +infinity
MathRound(n, d) == (2 * n + d) \div (2 * d)

\* Math.floor(n / d) for d > 0
MathFloor(n, d) == n \div d

Opt(cond, k, c) == IF cond THEN k :> c ELSE <<>>

-----------------------------------------------------------------------------
(* Validation engine *)

Err(k, kind) == [parameterId |-> k, kind |-> kind]

When(cond, e) == IF cond THEN <<e>> ELSE <<>>

\* |stepsFromMin - Math.round(stepsFromMin)| > 0.0001
OffStep(value, definition) ==
    LET d == value - definition.min
        r == MathRound(d, definition.step)
    IN  Abs(d - r * definition.step) * 10000 > definition.step

SchemaErrorsNoStep(key, definition, values) ==
    IF ~Has(values, key)
    THEN <<Err(key, "required")>>
    ELSE When(values[key] < definition.min, Err(key, "min"))
         \o When(values[key] > definition.max, Err(key, "max"))

\* one iteration of the loop over Object.entries(schema)
SchemaErrors(key, definition, values) ==
    IF ~Has(values, key)
    THEN <<Err(key, "required")>>
    ELSE When(values[key] < definition.min, Err(key, "min"))
         \o When(values[key] > definition.max, Err(key, "max"))
         \o When(OffStep(values[key], definition), Err(key, "step"))

RECURSIVE SchemaPhase(_, _, _, _)
SchemaPhase(schema, entries, values, i) ==
    IF i > Len(entries) THEN <<>>
    ELSE SchemaErrors(entries[i], schema[entries[i]], values)
         \o SchemaPhase(schema, entries, values, i + 1)

\* v.a, v.b, ... all present
HasAll(v, ks) == \A k \in ks : Has(v, k)

validateHoseAdapterOneDiameterError(values) ==
    IF Truthy(values, "outerDiameter") /\ Truthy(values, "innerDiameter")
    THEN IF values.outerDiameter <= values.innerDiameter
         THEN <<Err("outerDiameter", "outerGreaterThanInner")>>
         ELSE When(values.outerDiameter - values.innerDiameter < mm(2),
                   Err("outerDiameter", "outerAtLeast2mmLarger"))
    ELSE <<>>

validateHoseAdapterTaperAtLeast(values) ==
    IF Truthy(values, "taperLength") /\ Truthy(values, "length")
    THEN When(values.taperLength >= values.length - 2 * mm(10),
              Err("taperLength", "taperTooLong"))
    ELSE <<>>

validateHoseAdapterRidgeMaxOffByOne(values) ==
    IF Truthy(values, "ridgeCount") /\ values.ridgeCount > 0
       /\ HasAll(values, {"length", "taperLength", "ridgeWidth"})
    THEN When(500 * (values.length - values.taperLength)
                < values.ridgeWidth * (values.ridgeCount + mm(1)),
              [parameterId |-> "ridgeCount", kind |-> "tooManyRidges",
               maxRidges |-> MathFloor(values.length - values.taperLength,
                                       2 * values.ridgeWidth)])
    ELSE <<>>

validateHoseAdapterNoTaperRule(values) ==
    IF Truthy(values, "outerDiameter") /\ Truthy(values, "innerDiameter")
    THEN When(values.outerDiameter - values.innerDiameter < mm(2),
              Err("outerDiameter", "outerAtLeast2mmLarger"))
    ELSE <<>>

validateHoseAdapter(values) ==
    LET diameters ==
            IF Truthy(values, "outerDiameter") /\ Truthy(values, "innerDiameter")
            THEN When(values.outerDiameter <= values.innerDiameter,
                      Err("outerDiameter", "outerGreaterThanInner"))
                 \o When(values.outerDiameter - values.innerDiameter < mm(2),
                         Err("outerDiameter", "outerAtLeast2mmLarger"))
            ELSE <<>>
        taper ==
            IF Truthy(values, "taperLength") /\ Truthy(values, "length")
            THEN When(values.taperLength > values.length - 2 * mm(10),
                      Err("taperLength", "taperTooLong"))
            ELSE <<>>
        wall ==
            IF Truthy(values, "wallThickness") /\ Truthy(values, "innerDiameter")
            THEN When(2 * values.wallThickness > values.innerDiameter,
                      Err("wallThickness", "wallThicknessTooLarge"))
                 \o When(values.wallThickness < mm(1),
                         Err("wallThickness", "wallThicknessTooSmall"))
            ELSE <<>>
        ridges ==
            IF Truthy(values, "ridgeCount") /\ values.ridgeCount > 0
            THEN (IF HasAll(values, {"length", "taperLength", "ridgeWidth"})
                  THEN \* endLength / (ridgeCount + 1) < ridgeWidth
                       When(500 * (values.length - values.taperLength)
                              < values.ridgeWidth * (values.ridgeCount + mm(1)),
                            [parameterId |-> "ridgeCount", kind |-> "tooManyRidges",
                             maxRidges |-> MathFloor(values.length - values.taperLength,
                                                     2 * values.ridgeWidth) - 1])
                  ELSE <<>>)
                 \o (IF HasAll(values, {"ridgeDepth", "wallThickness"})
                     THEN When(values.ridgeDepth > values.wallThickness,
                               Err("ridgeDepth", "ridgeDepthExceedsWall"))
                     ELSE <<>>)
            ELSE <<>>
    IN  diameters \o taper \o wall \o ridges

validateDrainStrainer(values) ==
    LET wt == IF Has(values, "wallThickness")
              THEN OrElse(values.wallThickness, 1500) ELSE 1500
        \* 2 * innerRadius
        innerDiameter == values.diameter - 2 * wt
        holes ==
            IF Truthy(values, "diameter") /\ Truthy(values, "holeDiameter")
            THEN When(2 * values.holeDiameter >= innerDiameter,
                      Err("holeDiameter", "holeTooLargeForDiameter"))
                 \o When(4 * values.holeDiameter > values.diameter,
                         Err("holeDiameter", "holeDiameterExcessive"))
            ELSE <<>>
        post ==
            IF HasAll(values, {"centerPost", "depth"})
            THEN When(values.centerPost > values.depth * 2,
                      Err("centerPost", "centerPostTooTall"))
            ELSE <<>>
        rim ==
            IF HasAll(values, {"rimHeight", "depth"})
            THEN When(values.rimHeight > values.depth,
                      Err("rimHeight", "rimHeightExceedsDepth"))
            ELSE <<>>
        rows ==
            IF /\ Truthy(values, "holeRows") /\ Truthy(values, "holesPerRow")
               /\ Truthy(values, "holeDiameter") /\ Truthy(values, "diameter")
            THEN \* holeRadius * 3 > innerRadius
                 When(3 * values.holeDiameter > innerDiameter,
                      Err("holeRows", "tooManyHoleRows"))
            ELSE <<>>
    IN  holes \o post \o rim \o rows

\* values[k] || 0
ValueOrZero(v, k) == IF Has(v, k) THEN v[k] ELSE 0

validateThreadAdapter(values) ==
    LET maxDiameter == Max2(ValueOrZero(values, "threadADiameter"),
                            ValueOrZero(values, "threadBDiameter"))
    IN  (IF Has(values, "threadADiameter")
         THEN When(values.threadADiameter < mm(12),
                   Err("threadADiameter", "diameterTooSmall")) ELSE <<>>)
        \o (IF Has(values, "threadBDiameter")
            THEN When(values.threadBDiameter < mm(12),
                      Err("threadBDiameter", "diameterTooSmall")) ELSE <<>>)
        \o (IF HasAll(values, {"threadALength", "threadADiameter"})
            THEN \* threadALength > threadADiameter * 0.6
                 When(5 * values.threadALength > 3 * values.threadADiameter,
                      Err("threadALength", "threadLengthTooLong")) ELSE <<>>)
        \o (IF HasAll(values, {"threadBLength", "threadBDiameter"})
            THEN When(5 * values.threadBLength > 3 * values.threadBDiameter,
                      Err("threadBLength", "threadLengthTooLong")) ELSE <<>>)
        \o (IF Has(values, "hexGripSize") /\ values.hexGripSize > 0
            THEN When(values.hexGripSize < maxDiameter + mm(4),
                      Err("hexGripSize", "hexGripTooSmall")) ELSE <<>>)
        \o (IF Has(values, "threadAPitch")
            THEN When(values.threadAPitch < 800,
                      Err("threadAPitch", "pitchTooSmall")) ELSE <<>>)
        \o (IF Has(values, "threadBPitch")
            THEN When(values.threadBPitch < 800,
                      Err("threadBPitch", "pitchTooSmall")) ELSE <<>>)

\* the product's customValidation, as registered
customValidation(p, values) ==
    CASE p = "hoseAdapter"   -> validateHoseAdapter(values)
      [] p = "drainStrainer" -> validateDrainStrainer(values)
      [] p = "threadAdapter" -> validateThreadAdapter(values)

validateParametersStopAtSchemaErrors(p, values) ==
    LET schemaErrors == SchemaPhase(baseSchema(p), SchemaEntries(p), values, 1)
        errors == IF Len(schemaErrors) > 0
                  THEN schemaErrors
                  ELSE customValidation(p, values)
    IN  [isValid |-> Len(errors) = 0, errors |-> errors]

validateParameters(p, values) ==
    LET errors == SchemaPhase(baseSchema(p), SchemaEntries(p), values, 1)
                  \o customValidation(p, values)
    IN  [isValid |-> Len(errors) = 0, errors |-> errors]

-----------------------------------------------------------------------------
(* Dynamic constraint resolver *)

calculateHoseAdapterConstraints(schema, values) ==
    Opt(Has(values, "length"), "taperLength",
        [max |-> Max2(OrElse(schema.taperLength.min, 0),
                      values.length - 2 * mm(10))])
    @@ Opt(HasAll(values, {"length", "taperLength", "ridgeWidth"}), "ridgeCount",
        \* Math.max(0, Math.floor(endLength / ridgeWidth) - 1), as a scaled count
        [max |-> Min2(OrElse(schema.ridgeCount.max, mm(8)),
                      mm(Max2(0, MathFloor(values.length - values.taperLength,
                                           2 * values.ridgeWidth) - 1)))])
    @@ Opt(Has(values, "innerDiameter"), "wallThickness",
        [max |-> Min2(OrElse(schema.wallThickness.max, mm(10)),
                      values.innerDiameter \div 2)])
    @@ Opt(Has(values, "wallThickness"), "ridgeDepth",
        [max |-> Min2(OrElse(schema.ridgeDepth.max, mm(3)), values.wallThickness)])
    @@ Opt(Has(values, "innerDiameter"), "outerDiameter",
        [min |-> Max2(OrElse(schema.outerDiameter.min, 0),
                      values.innerDiameter + mm(2))])

calculateDrainStrainerConstraints(schema, values) ==
    Opt(Has(values, "diameter"), "holeDiameter",
        [max |-> Min2(OrElse(schema.holeDiameter.max, mm(10)), values.diameter \div 4)])
    @@ Opt(Has(values, "depth"), "centerPost",
        [max |-> Min2(OrElse(schema.centerPost.max, mm(20)), values.depth * 2)])
    @@ Opt(Has(values, "depth"), "rimHeight",
        [max |-> Min2(OrElse(schema.rimHeight.max, mm(5)), values.depth)])

calculateThreadAdapterConstraints(schema, values) ==
    Opt(Has(values, "threadADiameter"), "threadALength",
        [max |-> Min2(OrElse(schema.threadALength.max, mm(30)),
                      (3 * values.threadADiameter) \div 5)])
    @@ Opt(Has(values, "threadBDiameter"), "threadBLength",
        [max |-> Min2(OrElse(schema.threadBLength.max, mm(30)),
                      (3 * values.threadBDiameter) \div 5)])
    @@ Opt(Has(values, "hexGripSize") /\ values.hexGripSize > 0, "hexGripSize",
        [min |-> Max2(OrElse(schema.hexGripSize.min, 0),
                      Max2(ValueOrZero(values, "threadADiameter"),
                           ValueOrZero(values, "threadBDiameter")) + mm(4))])
    @@ ("threadAPitch" :> [min |-> Max2(OrElse(schema.threadAPitch.min, 500), 800)])
    @@ ("threadBPitch" :> [min |-> Max2(OrElse(schema.threadBPitch.min, 500), 800)])

\* the product's constraintsCalculator, as registered
calculateDynamicConstraints(p, values) ==
    CASE p = "hoseAdapter"   -> calculateHoseAdapterConstraints(baseSchema(p), values)
      [] p = "drainStrainer" -> calculateDrainStrainerConstraints(baseSchema(p), values)
      [] p = "threadAdapter" -> calculateThreadAdapterConstraints(baseSchema(p), values)

getEffectiveConstraints(schema, parameterId, dc) ==
    LET dynamic == IF parameterId \in DOMAIN dc THEN dc[parameterId] ELSE <<>>
    IN  [min |-> IF "min" \in DOMAIN dynamic THEN dynamic.min ELSE schema[parameterId].min,
         max |-> IF "max" \in DOMAIN dynamic THEN dynamic.max ELSE schema[parameterId].max]

\* the clamp of one loop iteration: the value and whether it set changed
Clamp(currentValue, constraints) ==
    IF currentValue < constraints.min
    THEN [value |-> constraints.min, changed |-> TRUE]
    ELSE IF currentValue > constraints.max
         THEN [value |-> constraints.max, changed |-> TRUE]
         ELSE [value |-> currentValue, changed |-> FALSE]

\* definition.min + Math.round((newValue - definition.min) / definition.step) * step
RoundToStep(newValue, definition) ==
    definition.min + MathRound(newValue - definition.min, definition.step) * definition.step

AdjustKeyNoRound(schema, key, currentValue, dc) ==
    LET c == Clamp(currentValue, getEffectiveConstraints(schema, key, dc))
    IN  [value |-> c.value, changed |-> c.changed]

\* the body of the for loop for one key: the new value and whether changed was set
AdjustKey(schema, key, currentValue, dc) ==
    LET c == Clamp(currentValue, getEffectiveConstraints(schema, key, dc))
        newValue == RoundToStep(c.value, schema[key])
    IN  [value |-> newValue, changed |-> c.changed \/ newValue # currentValue]

\* one pass of the while loop body over every schema key present in the vector;
\* the constraints are computed once, before the for loop, so the keys are independent
AdjustPass(p, v) ==
    LET dc == calculateDynamicConstraints(p, v)
        keys == DOMAIN v \cap DOMAIN baseSchema(p)
        r == [k \in keys |-> AdjustKey(baseSchema(p), k, v[k], dc)]
    IN  [values |-> [k \in DOMAIN v |-> IF k \in keys THEN r[k].value ELSE v[k]],
         changed |-> \E k \in keys : r[k].changed]

maxIterationsOdd == 3 * 3

maxIterations == 10

LoopContinuesNoCap(ch, it) == ch

\* the while condition
LoopContinues(ch, it) == ch /\ it < maxIterations

-----------------------------------------------------------------------------
(* Geometry builders: the guards that decide whether a build throws *)

ridgesAddedIgnoringDepth(params) == params.ridgeCount > 0

\* if (ridgeCount > 0 && ridgeDepth > 0)
ridgesAdded(params) == params.ridgeCount > 0 /\ params.ridgeDepth > 0

\* One ring of a ridge loop: makeCylinder(outerRadius + ridgeDepth, ridgeWidth)
\* translated to ridgeZ = sectionStart + i * ridgeSpacing - ridgeWidth / 2 with
\* ridgeSpacing = endLength / (ridgeCount + 1).  The ring is recorded by its
\* diameter (twice the radius) and by ridgeZ as the fraction zNum / zDen, so
\* that both are exact; sectionStart2 is twice the section's start.  The
\* ridge count is taken as a whole number of ridges, as the schema's step 1
\* makes it.
Ridge(i, params, outerDiameter, sectionStart2) ==
    LET ridges == params.ridgeCount \div mm(1)
    IN  [ diameter |-> outerDiameter + 2 * params.ridgeDepth,
          height   |-> params.ridgeWidth,
          zNum     |-> sectionStart2 * (ridges + 1)
                       + i * (params.length - params.taperLength)
                       - params.ridgeWidth * (ridges + 1),
          zDen     |-> 2 * (ridges + 1) ]

\* for (let i = 1; i <= ridgeCount; i++) over one end
RidgeLoop(params, outerDiameter, sectionStart2) ==
    [i \in 1..MathFloor(params.ridgeCount, mm(1)) |->
        Ridge(i, params, outerDiameter, sectionStart2)]

buildHoseAdapter(params) ==
    IF HasAll(params, {"length", "taperLength"})
    THEN LET endLength == (params.length - params.taperLength) \div 2
         IN  IF endLength < 0
             THEN [status |-> "threw", endLength |-> endLength]
             ELSE IF HasAll(params, DOMAIN HOSE_ADAPTER_SCHEMA)
             THEN LET smallOuterDiameter == params.innerDiameter + 2 * params.wallThickness
                      largeOuterDiameter == params.outerDiameter + 2 * params.wallThickness
                      added == ridgesAdded(params)
                  IN  [ status |-> "ok", endLength |-> endLength,
                        smallEndRidges |->
                            IF added THEN RidgeLoop(params, smallOuterDiameter, 0)
                            ELSE <<>>,
                        largeEndRidges |->
                            IF added
                            THEN RidgeLoop(params, largeOuterDiameter,
                                           params.length + params.taperLength)
                            ELSE <<>> ]
             ELSE [status |-> "ok", endLength |-> endLength]
    ELSE [status |-> "ok"]

buildDrainStrainer(params) == [status |-> "ok"]

buildThreadAdapter(params) == [status |-> "ok"]

\* the product's modelBuilder, as registered
modelBuilder(p, params) ==
    CASE p = "hoseAdapter"   -> buildHoseAdapter(params)
      [] p = "drainStrainer" -> buildDrainStrainer(params)
      [] p = "threadAdapter" -> buildThreadAdapter(params)

-----------------------------------------------------------------------------
(* Input vectors *)

HoseChoices ==
    [ innerDiameter : {10500, 32000, 104000},
      outerDiameter : {33000, 38000},
      length        : {30000, 60000, 200000},
      wallThickness : {2000, 5250, 5300},
      taperLength   : {40000, 45000, 160000},
      ridgeCount    : {0, 3000},
      ridgeDepth    : {0, 800, 3000},
      ridgeWidth    : {1000, 3000} ]

DrainChoices ==
    [ diameter      : {2000, 30000, 40000, 75000},
      depth         : {2000, 10000, 20000},
      rimHeight     : {2000, 2200, 5000},
      wallThickness : {1500, 4000},
      holeDiameter  : {4000, 8000, 10000, 12000},
      holeRows      : {3000},
      holesPerRow   : {8000},
      centerPost    : {10000, 20000, 25000} ]

ThreadChoices ==
    [ threadADiameter : {12500, 28000, 80000, 90000},
      threadAPitch    : {500, 2000},
      threadAType     : {0},
      threadALength   : {8000, 10000, 30000},
      threadBDiameter : {38000},
      threadBPitch    : {2500},
      threadBType     : {1000},
      threadBLength   : {10000, 25000},
      bodyLength      : {20000},
      hexGripSize     : {0, 40000, 50000},
      hollow          : {1000} ]

Choices(p) ==
    CASE p = "hoseAdapter"   -> HoseChoices
      [] p = "drainStrainer" -> DrainChoices
      [] p = "threadAdapter" -> ThreadChoices

\* the parameters an input vector may lack
MissingKeys(p) ==
    CASE p = "hoseAdapter"   -> {"innerDiameter", "length", "ridgeWidth"}
      [] p = "drainStrainer" -> {"diameter", "depth", "wallThickness"}
      [] p = "threadAdapter" -> {"threadADiameter", "hexGripSize", "threadAPitch"}

Drop(v, ks) == [k \in DOMAIN v \ ks |-> v[k]]

Inputs(p) ==
    { Drop(v, ks) : v \in Choices(p),
                    ks \in {s \in SUBSET MissingKeys(p) : Cardinality(s) <= MaxMissing} }

-----------------------------------------------------------------------------
(* adjustToValidConstraints, one action per loop pass *)

NoValidation == [isValid |-> TRUE, errors |-> <<>>]

NoBuild == [status |-> "none"]

NoTimer == [set |-> FALSE]

\* the kernel module as imported: nothing loaded, no initialization started
KernelIdle ==
    /\ loaded = FALSE
    /\ initPromise = 0
    /\ promises = <<>>
    /\ received = <<>>
    /\ loadsStarted = 0
    /\ setOCCalls = 0

\* the page is not open
PageIdle ==
    /\ KernelIdle
    /\ parameters = <<>>
    /\ localValues = <<>>
    /\ debounceTimer = NoTimer
    /\ changeDebounceTimer = <<>>
    /\ lastFire = "none"
    /\ burst = 0
    /\ adjustOutputs = {}
    /\ mesh = 0
    /\ shape = 0
    /\ loading = FALSE
    /\ error = ""
    /\ generationIdRef = 0
    /\ previousMeshRef = 0
    /\ inflight = {}
    /\ requestParams = <<>>
    /\ threeMeshes = {}
    /\ disposals = {}
    /\ completedOrder = <<>>
    /\ mounted = FALSE
    /\ disposedTwice = {}

\* the state on entry to adjustToValidConstraints(schema, input, calculator)
AdjustEntry ==
    /\ adjusted = input
    /\ changed = TRUE
    /\ iterations = 0
    /\ apc = "loop"
    /\ run = 1
    /\ firstResult = <<>>

NothingCalled ==
    /\ validation = NoValidation
    /\ dynamicConstraints = <<>>
    /\ buildOutcome = NoBuild
    /\ called = {}

InitAdjust ==
    /\ product \in Products
    /\ input \in Inputs(product)
    /\ AdjustEntry
    /\ NothingCalled
    /\ PageIdle

AdjustLoop ==
    /\ apc = "loop"
    /\ LoopContinues(changed, iterations)
    /\ LET pass == AdjustPass(product, adjusted)
       IN  /\ adjusted' = pass.values
           /\ changed' = pass.changed
    /\ iterations' = iterations + 1
    /\ UNCHANGED <<product, input, apc, run, firstResult, validateVars, pageVars>>

AdjustReturn ==
    /\ apc = "loop"
    /\ ~LoopContinues(changed, iterations)
    /\ apc' = "done"
    /\ firstResult' = IF run = 1 THEN adjusted ELSE firstResult
    /\ UNCHANGED <<product, input, adjusted, changed, iterations, run, validateVars, pageVars>>

\* adjust applied to the vector the first call returned
AdjustAgain ==
    /\ apc = "done"
    /\ run = 1
    /\ run' = 2
    /\ adjusted' = firstResult
    /\ changed' = TRUE
    /\ iterations' = 0
    /\ apc' = "loop"
    /\ UNCHANGED <<product, input, firstResult, validateVars, pageVars>>

NextAdjust == AdjustLoop \/ AdjustReturn \/ AdjustAgain

Spec == InitAdjust /\ [][NextAdjust]_vars

-----------------------------------------------------------------------------
(* validateParameters, calculateDynamicConstraints and the builder, applied *)
(* to an input vector                                                      *)

InitValidate ==
    /\ product \in Products
    /\ input \in Inputs(product) \cup {getDefaultValues(baseSchema(product))}
    /\ AdjustEntry
    /\ NothingCalled
    /\ PageIdle

Validate ==
    /\ "validate" \notin called
    /\ validation' = validateParameters(product, input)
    /\ called' = called \cup {"validate"}
    /\ UNCHANGED <<adjustVars, dynamicConstraints, buildOutcome, pageVars>>

Constrain ==
    /\ "constrain" \notin called
    /\ dynamicConstraints' = calculateDynamicConstraints(product, input)
    /\ called' = called \cup {"constrain"}
    /\ UNCHANGED <<adjustVars, validation, buildOutcome, pageVars>>

Build ==
    /\ "build" \notin called
    /\ buildOutcome' = modelBuilder(product, input)
    /\ called' = called \cup {"build"}
    /\ UNCHANGED <<adjustVars, validation, dynamicConstraints, pageVars>>

NextValidate == Validate \/ Constrain \/ Build

SpecValidate == InitValidate /\ [][NextValidate]_vars

-----------------------------------------------------------------------------
(* Properties of adjustToValidConstraints (specification Spec) *)

SchemaKeysOf(p, v) == DOMAIN v \cap DOMAIN baseSchema(p)

OnGrid(value, definition) == (value - definition.min) % definition.step = 0

\* C1: adjustToValidConstraints is idempotent for each shipped calculator:
\* adjusting the vector returned by a first call returns that same vector.
C1_AdjustIdempotent ==
    (run = 2 /\ apc = "done") => adjusted = firstResult

\* the second call has returned, for an input the first call had to repair
C1_Witness ==
    /\ run = 2
    /\ apc = "done"
    /\ firstResult # input

\* C2: every value of the returned vector lies inside its effective range,
\* the dynamic constraints being recomputed from the returned vector.
C2_ReturnedInEffectiveRange ==
    (run = 1 /\ apc = "done") =>
        LET dc == calculateDynamicConstraints(product, adjusted)
        IN  \A k \in SchemaKeysOf(product, adjusted) :
                LET c == getEffectiveConstraints(baseSchema(product), k, dc)
                IN  c.min <= adjusted[k] /\ adjusted[k] <= c.max

\* C8: every returned value of a parameter present in the input lies on the
\* step grid anchored at the parameter's schema min.
C8_ReturnedOnStepGrid ==
    (apc = "done") =>
        \A k \in SchemaKeysOf(product, adjusted) :
            OnGrid(adjusted[k], baseSchema(product)[k])

\* a returned vector one of whose values exceeded a dynamic max that is off the grid
C8_Witness ==
    /\ run = 1
    /\ apc = "done"
    /\ LET dc == calculateDynamicConstraints(product, adjusted)
       IN  \E k \in SchemaKeysOf(product, adjusted) \cap DOMAIN dc :
               /\ "max" \in DOMAIN dc[k]
               /\ ~OnGrid(dc[k].max, baseSchema(product)[k])
               /\ input[k] > dc[k].max

\* C9: adjustToValidConstraints performs at most maxIterations passes: the
\* pass counter never exceeds the cap, and at the cap the loop is left.
C9_AtMostTenPasses ==
    /\ iterations <= maxIterations
    /\ (apc = "loop" /\ iterations = maxIterations) => ~LoopContinues(changed, iterations)

\* a call that returned after the cap's last pass still recorded a change
C9_Witness ==
    /\ apc = "done"
    /\ iterations = maxIterations
    /\ changed

-----------------------------------------------------------------------------
(* Properties of validation, constraints and builders (specification SpecValidate) *)

InSchemaBounds(p, v) ==
    /\ DOMAIN v = DOMAIN baseSchema(p)
    /\ \A k \in DOMAIN v : baseSchema(p)[k].min <= v[k] /\ v[k] <= baseSchema(p)[k].max

\* C3: a vector that passes validateParameters (schema checks and the product's
\* domain rule) does not make the product's builder throw.
C3_ValidImpliesBuildable ==
    ({"validate", "build"} \subseteq called /\ validation.isValid)
        => buildOutcome.status = "ok"

\* a valid hose adapter vector has been validated and built
C3_Witness ==
    /\ {"validate", "build"} \subseteq called
    /\ validation.isValid
    /\ product = "hoseAdapter"
    /\ buildOutcome.status = "ok"
    /\ buildOutcome.endLength >= 0

\* C7: for a vector within the schema bounds every dynamic constraint only
\* tightens the schema range: max <= schema max and min >= schema min.
C7_ConstraintsOnlyTighten ==
    ("constrain" \in called /\ InSchemaBounds(product, input)) =>
        \A k \in DOMAIN dynamicConstraints :
            /\ "max" \in DOMAIN dynamicConstraints[k]
                   => dynamicConstraints[k].max <= baseSchema(product)[k].max
            /\ "min" \in DOMAIN dynamicConstraints[k]
                   => dynamicConstraints[k].min >= baseSchema(product)[k].min

\* C10: the hose adapter's schema defaults pass validateParameters and
\* buildHoseAdapter succeeds on them with endLength = 10.
C10_HoseDefaultsValid ==
    (/\ product = "hoseAdapter"
     /\ input = getDefaultValues(HOSE_ADAPTER_SCHEMA)
     /\ {"validate", "build"} \subseteq called)
        => /\ validation.isValid
           /\ buildOutcome.status = "ok"
           /\ buildOutcome.endLength = mm(10)

-----------------------------------------------------------------------------
(* The product page: ProductPage, ParameterPanel with its ParameterControls, *)
(* and ModelContainer                                                      *)

\* adjustToValidConstraints as one call: the vector returned and the loop's
\* final flag and pass count
RECURSIVE AdjustFrom(_, _, _, _)
AdjustFrom(p, v, ch, it) ==
    IF LoopContinues(ch, it)
    THEN LET pass == AdjustPass(p, v)
         IN  AdjustFrom(p, pass.values, pass.changed, it + 1)
    ELSE [values |-> v, changed |-> ch, iterations |-> it]

adjustToValidConstraints(p, values) == AdjustFrom(p, values, TRUE, 0)

\* manufacturing resolution, 0.1 mm
RESOLUTION == 100

snapToMultiple(value, multiple) == MathRound(value, multiple) * multiple

roundToResolution(value, resolution) == MathRound(value, resolution) * resolution

\* Math.round(rounded * 10^precision) / 10^precision, for precision 0 and 1
RoundToPrecision(rounded, precision) ==
    LET unit == IF precision = 0 THEN mm(1) ELSE mm(1) \div 10
    IN  MathRound(rounded, unit) * unit

roundParameter(value, definition) ==
    LET snapped == snapToMultiple(value, definition.step)
        resolved == roundToResolution(snapped, RESOLUTION)
        rounded == RoundToPrecision(resolved, definition.precision)
    IN  Max2(definition.min, Min2(definition.max, rounded))

\* the vector handleParameterChange builds from the localValues it closed over
WithValue(base, parameterId, newValue) ==
    [k \in DOMAIN base \cup {parameterId} |->
        IF k = parameterId THEN newValue ELSE base[k]]

TimerFor(newValues) == [set |-> TRUE, newValues |-> newValues]

\* what a control's auto-adjust effect passes to onChange: the rounded clamp
AutoAdjusted(schema, key, value, dc) ==
    LET eff == getEffectiveConstraints(schema, key, dc)
        clampedValue == Max2(eff.min, Min2(eff.max, value))
    IN  roundParameter(clampedValue, schema[key])

\* whether a control's auto-adjust effect calls onChange
AutoAdjustFires(schema, key, value, dc) ==
    LET eff == getEffectiveConstraints(schema, key, dc)
    IN  /\ (value < eff.min \/ value > eff.max)
        /\ AutoAdjusted(schema, key, value, dc) # value

\* The effects of one render of the panel.  Every control's effect calls the
\* handleParameterChange of this render, which spreads this render's
\* localValues, so of several calls the last one (schema order) decides the
\* next localValues and the timer.
EffectsPass(p, lv) ==
    LET schema == baseSchema(p)
        keys == SchemaEntries(p)
        dc == calculateDynamicConstraints(p, lv)
        ValueOf(k) == IF Has(lv, k) THEN lv[k] ELSE schema[k].default
        firing == {i \in 1..Len(keys) :
                      AutoAdjustFires(schema, keys[i], ValueOf(keys[i]), dc)}
    IN  IF firing = {}
        THEN [fired |-> FALSE, values |-> lv]
        ELSE LET i == CHOOSE j \in firing : \A h \in firing : h <= j
             IN  [fired |-> TRUE,
                  values |-> WithValue(lv, keys[i],
                                 AutoAdjusted(schema, keys[i], ValueOf(keys[i]), dc))]

\* the renders that follow a change of localValues, until no effect calls onChange
RECURSIVE Cascade(_, _, _, _)
Cascade(p, lv, timer, fuel) ==
    LET pass == EffectsPass(p, lv)
    IN  IF pass.fired /\ fuel > 0
        THEN Cascade(p, pass.values, TimerFor(pass.values), fuel - 1)
        ELSE [localValues |-> lv, debounceTimer |-> timer]

handleParameterChangeStaleTimer(p, base, parameterId, newValue) ==
    LET newValues == WithValue(base, parameterId, newValue)
    IN  [localValues |-> Cascade(p, newValues, TimerFor(newValues), MaxCascade).localValues,
         debounceTimer |-> TimerFor(base)]

\* handleParameterChange(parameterId, newValue) called with the localValues
\* of the render that created it, and the renders that follow
handleParameterChange(p, base, parameterId, newValue) ==
    LET newValues == WithValue(base, parameterId, newValue)
    IN  Cascade(p, newValues, TimerFor(newValues), MaxCascade)

\* the raw values the user gives a slider, by product and parameter id
EditChoices(p) ==
    CASE p = "hoseAdapter" ->
            [ innerDiameter |-> {10400, 32000},
              ridgeCount    |-> {3000} ]
      [] p = "drainStrainer" ->
            [ holeDiameter  |-> {4000, 10000} ]
      [] p = "threadAdapter" ->
            [ threadADiameter |-> {28000, 80000} ]

\* the numbers the user types into an input field, by product and parameter id
TypedChoices(p) ==
    CASE p = "hoseAdapter"   -> [ wallThickness |-> {5260} ]
      [] p = "drainStrainer" -> [ diameter |-> {40200} ]
      [] p = "threadAdapter" -> [ threadAPitch |-> {540} ]

InitialParametersNoAdjust(p) == getDefaultValues(baseSchema(p))

\* useState initialiser of parameters
InitialParameters(p) ==
    adjustToValidConstraints(p, getDefaultValues(baseSchema(p))).values

CommitAllowedAlways(validationResult) == TRUE

\* if (validationResult.isValid) onChange(newValues)
CommitAllowed(validationResult) == validationResult.isValid

IsLatestAlways(currentGenerationId, latest) == TRUE

IsLatestNever(currentGenerationId, latest) == FALSE

\* currentGenerationId === generationIdRef.current
IsLatest(currentGenerationId, latest) == currentGenerationId = latest

DisposePreviousNever(previous) == {}

\* if (previousMeshRef.current) { geometry.dispose(); material.dispose() }
DisposePrevious(previous) == IF previous # 0 THEN {previous} ELSE {}

ErrorMessageNone(outcome) == ""

\* err instanceof Error ? err.message : "Failed to generate model"
ErrorMessage(outcome) ==
    IF outcome.status = "threw"
    THEN "Taper length cannot be greater than total length minus minimum end lengths"
    ELSE "Failed to generate model"

\* the state after the page has mounted: parameters initialised, the panel's
\* first effects run, and the container's first generateModel call started
InitPage ==
    /\ product \in Products
    /\ input = getDefaultValues(baseSchema(product))
    /\ LET r == adjustToValidConstraints(product, input)
       IN  /\ adjusted = r.values
           /\ changed = r.changed
           /\ iterations = r.iterations
           /\ firstResult = r.values
           /\ adjustOutputs = {r.values}
    /\ apc = "done"
    /\ run = 1
    /\ NothingCalled
    /\ parameters = InitialParameters(product)
    /\ LET first == Cascade(product, parameters, NoTimer, MaxCascade)
       IN  /\ localValues = first.localValues
           /\ debounceTimer = first.debounceTimer
    /\ changeDebounceTimer = <<>>
    /\ lastFire = "none"
    /\ burst = 0
    /\ KernelIdle
    /\ mesh = 0
    /\ shape = 0
    /\ loading = TRUE
    /\ error = ""
    /\ generationIdRef = 1
    /\ previousMeshRef = 0
    /\ inflight = {1}
    /\ requestParams = (1 :> parameters)
    /\ threeMeshes = {}
    /\ disposals = {}
    /\ completedOrder = <<>>
    /\ mounted = TRUE
    /\ disposedTwice = {}

\* the edits of the burst an edit belongs to: one more than before while a
\* timer is pending, and the first of a new burst otherwise
EditsInBurst(timer, edits) == IF timer.set THEN Min2(edits + 1, MaxBurst) ELSE 1

\* handleSliderChange of the control of parameterId, controls enabled
SliderChange(parameterId, sliderValue) ==
    /\ mounted
    /\ ~loading
    /\ LET rounded == roundParameter(sliderValue, baseSchema(product)[parameterId])
           r == handleParameterChange(product, localValues, parameterId, rounded)
       IN  /\ localValues' = r.localValues
           /\ debounceTimer' = r.debounceTimer
    /\ burst' = EditsInBurst(debounceTimer, burst)
    /\ UNCHANGED <<adjustVars, validateVars, initVars, parameters, changeDebounceTimer,
                   lastFire, adjustOutputs, containerVars>>

\* handleInputChange with a parsable number: the 500 ms timer is set; its
\* callback keeps the onChange, and so the localValues, of this render
InputChange(parameterId, parsed) ==
    /\ mounted
    /\ ~loading
    /\ changeDebounceTimer' =
           WithValue(changeDebounceTimer, parameterId,
                     [localValues |-> localValues, parsed |-> parsed])
    /\ UNCHANGED <<adjustVars, validateVars, initVars, parameters, localValues, debounceTimer,
                   lastFire, burst, adjustOutputs, containerVars>>

\* the 500 ms timer of a control fires
ChangeTimerFires(parameterId) ==
    /\ parameterId \in DOMAIN changeDebounceTimer
    /\ LET t == changeDebounceTimer[parameterId]
           rounded == roundParameter(t.parsed, baseSchema(product)[parameterId])
           r == handleParameterChange(product, t.localValues, parameterId, rounded)
       IN  /\ localValues' = r.localValues
           /\ debounceTimer' = r.debounceTimer
    /\ changeDebounceTimer' =
           [k \in DOMAIN changeDebounceTimer \ {parameterId} |-> changeDebounceTimer[k]]
    /\ burst' = EditsInBurst(debounceTimer, burst)
    /\ UNCHANGED <<adjustVars, validateVars, initVars, parameters, lastFire, adjustOutputs,
                   containerVars>>

\* The panel's 300 ms debounce timer fires.  A valid vector is handed to the
\* page's handleParameterChange (setParameters); the panel's effect copies it
\* to localValues and the container's effect starts generateModel, which
\* takes the next generation id, sets loading and clears the error.
TimerFires ==
    /\ debounceTimer.set
    /\ LET newValues == debounceTimer.newValues
           validationResult == validateParameters(product, newValues)
           currentGenerationId == generationIdRef + 1
           r == Cascade(product, newValues, NoTimer, MaxCascade)
       IN  IF CommitAllowed(validationResult)
           THEN /\ generationIdRef < MaxGen
                /\ parameters' = newValues
                /\ localValues' = r.localValues
                /\ debounceTimer' = r.debounceTimer
                /\ lastFire' = "committed"
                /\ generationIdRef' = currentGenerationId
                /\ loading' = TRUE
                /\ error' = ""
                /\ inflight' = inflight \cup {currentGenerationId}
                /\ requestParams' =
                       WithValue(requestParams, currentGenerationId, newValues)
                /\ UNCHANGED <<mesh, shape, previousMeshRef, threeMeshes, disposals,
                               completedOrder, mounted, disposedTwice>>
           ELSE /\ debounceTimer' = NoTimer
                /\ lastFire' = "rejected"
                /\ UNCHANGED <<parameters, localValues, containerVars>>
    /\ UNCHANGED <<adjustVars, validateVars, initVars, changeDebounceTimer, burst,
                   adjustOutputs>>

\* The rest of a generateModel call: the builder is applied to the parameters
\* the call closed over, the mesh is made (the kernel may fail), and the
\* result or the error is applied or dropped according to the generation id.
\* After unmount the call still runs to its end: the refs are read and
\* written as before, and the state setters have no effect.
CompleteBuild(currentGenerationId, kernelFails) ==
    /\ currentGenerationId \in inflight
    /\ LET outcome == modelBuilder(product, requestParams[currentGenerationId])
           failed == outcome.status = "threw" \/ kernelFails
           latest == IsLatest(currentGenerationId, generationIdRef)
           disposed == IF failed THEN {}
                       ELSE IF latest THEN DisposePrevious(previousMeshRef)
                       ELSE {currentGenerationId}
       IN  /\ threeMeshes' = IF failed THEN threeMeshes
                             ELSE threeMeshes \cup {currentGenerationId}
           /\ disposals' = disposals \cup disposed
           /\ disposedTwice' = disposedTwice \cup (disposed \cap disposals)
           /\ previousMeshRef' = IF ~failed /\ latest THEN currentGenerationId
                                 ELSE previousMeshRef
           /\ IF mounted
              THEN /\ error' = IF failed /\ latest THEN ErrorMessage(outcome) ELSE error
                   /\ mesh' = IF ~failed /\ latest THEN currentGenerationId ELSE mesh
                   /\ shape' = IF ~failed /\ latest THEN currentGenerationId ELSE shape
                   /\ loading' = IF latest THEN FALSE ELSE loading
              ELSE UNCHANGED <<error, mesh, shape, loading>>
    /\ inflight' = inflight \ {currentGenerationId}
    /\ completedOrder' = Append(completedOrder, currentGenerationId)
    /\ UNCHANGED <<adjustVars, validateVars, initVars, panelVars, generationIdRef,
                   requestParams, mounted>>

\* the dismiss button of the error banner
DismissError ==
    /\ error # ""
    /\ error' = ""
    /\ UNCHANGED <<adjustVars, validateVars, initVars, panelVars, mesh, shape, loading,
                   generationIdRef, previousMeshRef, inflight, requestParams,
                   threeMeshes, disposals, completedOrder, mounted, disposedTwice>>

NextPage ==
    \/ \E parameterId \in DOMAIN EditChoices(product) :
           \E sliderValue \in EditChoices(product)[parameterId] :
               SliderChange(parameterId, sliderValue)
    \/ \E parameterId \in DOMAIN TypedChoices(product) :
           \E parsed \in TypedChoices(product)[parameterId] :
               InputChange(parameterId, parsed)
    \/ \E parameterId \in DOMAIN TypedChoices(product) : ChangeTimerFires(parameterId)
    \/ TimerFires
    \/ \E currentGenerationId \in 1..MaxGen, kernelFails \in BOOLEAN :
           CompleteBuild(currentGenerationId, kernelFails)
    \/ DismissError

SpecPage == InitPage /\ [][NextPage]_vars

\* The page is left.  The cleanups run: the panel and the controls clear
\* their timers and the container disposes the mesh in previousMeshRef.  The
\* components' state is gone; the refs and the generateModel calls in flight
\* remain.
Unmount ==
    /\ mounted
    /\ mounted' = FALSE
    /\ debounceTimer' = NoTimer
    /\ changeDebounceTimer' = <<>>
    /\ disposals' = disposals \cup DisposePrevious(previousMeshRef)
    /\ disposedTwice' = disposedTwice \cup (DisposePrevious(previousMeshRef) \cap disposals)
    /\ mesh' = 0
    /\ shape' = 0
    /\ loading' = FALSE
    /\ error' = ""
    /\ UNCHANGED <<adjustVars, validateVars, initVars, parameters, localValues, lastFire,
                   burst, adjustOutputs, generationIdRef, previousMeshRef, inflight,
                   requestParams, threeMeshes, completedOrder>>

NextLifetime == NextPage \/ Unmount

\* the page from mount to unmount, and the calls that outlive it
SpecLifetime == InitPage /\ [][NextLifetime]_vars

-----------------------------------------------------------------------------
(* Properties of the page flow *)

\* the generateModel calls that have completed
Completed == {completedOrder[i] : i \in 1..Len(completedOrder)}

\* C4: a generateModel call that completes when its generation id is no longer
\* the latest leaves mesh, shape and error as they are, and mesh, shape or a
\* new error message change only in a step in which the call holding the
\* latest id completes, whatever the order of completion.
C4_StaleResultsNeverApplied ==
    [][ /\ \A id \in inflight :
               (id \notin inflight' /\ id # generationIdRef)
                   => UNCHANGED <<mesh, shape, error>>
        /\ (mesh' # mesh \/ shape' # shape \/ (error' # error /\ error' # ""))
               => \E id \in inflight : id \notin inflight' /\ id = generationIdRef
      ]_vars

\* a newer call completed first and is displayed; the superseded call completed
\* after it and its mesh was disposed
C4_Witness ==
    \E i, j \in 1..Len(completedOrder) :
        /\ i < j
        /\ completedOrder[i] > completedOrder[j]
        /\ mesh = completedOrder[i]
        /\ completedOrder[j] \in disposals

C6_CommitOnlyIfValid ==
    [][ /\ (parameters' # parameters \/ generationIdRef' # generationIdRef)
               => /\ debounceTimer.set
                  /\ validateParameters(product, debounceTimer.newValues).isValid
                  /\ parameters' = debounceTimer.newValues
                  /\ requestParams'[generationIdRef'] = debounceTimer.newValues
        /\ (debounceTimer.set /\ lastFire' = "rejected" /\ debounceTimer' = NoTimer)
               => UNCHANGED <<parameters, generationIdRef, inflight, requestParams>>
      ]_vars

\* after a commit, a timer fired with an invalid vector: the panel shows the
\* invalid vector, the committed vector is still the one last built
C6_Witness ==
    /\ lastFire = "rejected"
    /\ generationIdRef > 1
    /\ ~validateParameters(product, localValues).isValid
    /\ parameters = requestParams[generationIdRef]
    /\ parameters # localValues

-----------------------------------------------------------------------------
(* Properties of the validation rules *)

SchemaKinds == {"required", "min", "max", "step"}

\* the errors the domain rule appended to the schema-phase errors
DomainErrors(errors) == SelectSeq(errors, LAMBDA e : e.kind \notin SchemaKinds)

\* the errors reported on one parameter
OnParameter(errors, parameterId) ==
    SelectSeq(errors, LAMBDA e : e.parameterId = parameterId)

Kinds(errors) == [i \in 1..Len(errors) |-> errors[i].kind]

HoseValidated == "validate" \in called /\ product = "hoseAdapter"

DiameterTooClose ==
    /\ HasAll(input, {"outerDiameter", "innerDiameter"})
    /\ input.outerDiameter < input.innerDiameter + mm(2)

SchemaPhaseErrors(errors) == SelectSeq(errors, LAMBDA e : e.kind \in SchemaKinds)

\* (value - min) / step is further than 1e-4 from the nearest integer
FarFromGrid(value, definition) ==
    LET m == (value - definition.min) % definition.step
    IN  Min2(m, definition.step - m) * 10000 > definition.step

\* C12: for each schema parameter the schema phase reports one required error
\* and nothing else when the value is absent; otherwise a min error iff
\* value < min, a max error iff value > max, and a step error iff
\* (value - min)/step is more than 1e-4 away from the nearest integer.
C12_SchemaPhaseErrors ==
    "validate" \in called =>
        \A k \in DOMAIN baseSchema(product) :
            LET definition == baseSchema(product)[k]
                reported == Kinds(OnParameter(SchemaPhaseErrors(validation.errors), k))
            IN  IF ~Has(input, k)
                THEN reported = <<"required">>
                ELSE reported =
                         (IF input[k] < definition.min THEN <<"min">> ELSE <<>>)
                         \o (IF input[k] > definition.max THEN <<"max">> ELSE <<>>)
                         \o (IF FarFromGrid(input[k], definition) THEN <<"step">> ELSE <<>>)

\* a validated vector with an absent parameter, one off the step grid and one
\* outside its bounds
C12_Witness ==
    /\ "validate" \in called
    /\ \E k \in DOMAIN baseSchema(product) : ~Has(input, k)
    /\ \E i \in 1..Len(validation.errors) : validation.errors[i].kind = "required"
    /\ \E i \in 1..Len(validation.errors) : validation.errors[i].kind = "step"
    /\ \E i \in 1..Len(validation.errors) : validation.errors[i].kind \in {"min", "max"}

\* C13: validateParameters returns a result for every values map, vectors
\* with absent parameters included: its errors are the schema-phase errors
\* followed by all the errors of the product's domain rule, the domain rule
\* having run whether or not the schema phase found errors, and isValid is
\* true exactly when there is no error.
C13_ResultAggregatesBothPhases ==
    "validate" \in called =>
        LET errors == validation.errors
            n == Len(SchemaPhaseErrors(errors))
        IN  /\ SubSeq(errors, 1, n) =
                   SchemaPhase(baseSchema(product), SchemaEntries(product), input, 1)
            /\ SubSeq(errors, n + 1, Len(errors)) = customValidation(product, input)
            /\ validation.isValid <=> (Len(errors) = 0)

\* a vector with an absent parameter whose result holds errors of both phases
C13_Witness ==
    /\ "validate" \in called
    /\ \E k \in DOMAIN baseSchema(product) : ~Has(input, k)
    /\ Len(SchemaPhaseErrors(validation.errors)) > 0
    /\ Len(DomainErrors(validation.errors)) > 0
    /\ ~validation.isValid

\* C14: for a hose adapter vector with taperLength and length both non-zero,
\* the domain rule reports taperTooLong, on taperLength, when
\* taperLength > length - 20, and no error on taperLength when
\* taperLength <= length - 20.
C14_TaperTooLong ==
    (HoseValidated /\ Truthy(input, "taperLength") /\ Truthy(input, "length")) =>
        Kinds(OnParameter(DomainErrors(validation.errors), "taperLength")) =
            IF input.taperLength > input.length - mm(20)
            THEN <<"taperTooLong">>
            ELSE <<>>

\* taperLength = 45 with length = 60 is reported; the vector is invalid
C14_Witness ==
    /\ HoseValidated
    /\ Has(input, "length") /\ input.length = mm(60)
    /\ input.taperLength = mm(45)
    /\ \E i \in 1..Len(validation.errors) :
           validation.errors[i] = Err("taperLength", "taperTooLong")
    /\ ~validation.isValid

\* the largest integer q with q * ridgeWidth <= endLength, endLength being
\* (length - taperLength) / 2
WholeRidgeWidths(values) ==
    CHOOSE q \in -200..200 :
        /\ q * 2 * values.ridgeWidth <= values.length - values.taperLength
        /\ values.length - values.taperLength < (q + 1) * 2 * values.ridgeWidth

\* endLength / (ridgeCount + 1) < ridgeWidth, ridgeCount being scaled by 1000
RidgesTooClose(values) ==
    500 * (values.length - values.taperLength)
        < values.ridgeWidth * (values.ridgeCount + 1000)

\* C15: for a hose adapter vector with ridgeCount > 0 whose ridge spacing
\* endLength / (ridgeCount + 1) is below ridgeWidth, the domain rule reports
\* on ridgeCount one error whose maximum is floor(endLength / ridgeWidth) - 1;
\* with a spacing of at least ridgeWidth, or no ridges, it reports none.
C15_TooManyRidges ==
    (HoseValidated
     /\ HasAll(input, {"length", "taperLength", "ridgeWidth", "ridgeCount"})) =>
        OnParameter(DomainErrors(validation.errors), "ridgeCount") =
            IF input.ridgeCount > 0 /\ RidgesTooClose(input)
            THEN << [parameterId |-> "ridgeCount", kind |-> "tooManyRidges",
                     maxRidges |-> WholeRidgeWidths(input) - 1] >>
            ELSE <<>>

\* length 60, taperLength 40, ridgeWidth 3, ridgeCount 3: spacing 2.5 < 3,
\* reported with maximum 2
C15_Witness ==
    /\ HoseValidated
    /\ HasAll(input, {"length", "taperLength", "ridgeWidth", "ridgeCount"})
    /\ input.length = mm(60) /\ input.taperLength = mm(40)
    /\ input.ridgeWidth = mm(3) /\ input.ridgeCount = mm(3)
    /\ \E i \in 1..Len(validation.errors) :
           validation.errors[i] =
               [parameterId |-> "ridgeCount", kind |-> "tooManyRidges", maxRidges |-> 2]

-----------------------------------------------------------------------------
(* Properties of ModelContainer's resources *)

\* the meshes made and not disposed
LiveMeshes == threeMeshes \ disposals

\* C16: when every generateModel call issued so far has completed with a
\* mesh, exactly one mesh is live: the one of the latest call, which is the
\* one displayed and whose shape is kept for export; the meshes of all the
\* earlier calls have been disposed.
C16_OneLiveResult ==
    (inflight = {} /\ threeMeshes = 1..generationIdRef) =>
        /\ LiveMeshes = {generationIdRef}
        /\ mesh = generationIdRef
        /\ shape = generationIdRef
        /\ disposals = 1..(generationIdRef - 1)

\* two committed edits after the first build, each build completing with a
\* mesh before the next starts
C16_Witness ==
    /\ inflight = {}
    /\ generationIdRef >= 3
    /\ threeMeshes = 1..generationIdRef
    /\ \A i \in 1..Len(completedOrder) : completedOrder[i] = i
    /\ LiveMeshes = {mesh}
    /\ Cardinality(disposals) = generationIdRef - 1

-----------------------------------------------------------------------------
(* replicadInit: loading the kernel once *)

PromiseStoredNever(promise) == FALSE

\* if (initPromise)
PromiseStored(promise) == promise # 0

\* the module just imported, no page state involved
InitKernel ==
    /\ product = "hoseAdapter"
    /\ input = <<>>
    /\ AdjustEntry
    /\ NothingCalled
    /\ PageIdle

\* One call of initReplicad.  It returns the stored promise if there is one,
\* a resolved promise if loaded is set, and otherwise stores a new promise
\* whose body has called the kernel loader and waits for it.  When the
\* loader throws at once, the body's catch runs before the body returns:
\* it sets initPromise to null, and the assignment of the body's promise,
\* already rejected, to initPromise follows.
InitReplicadCall(throwsImmediately) ==
    /\ Len(received) < MaxInitCalls
    /\ IF PromiseStored(initPromise)
       THEN /\ received' = Append(received, [promise |-> initPromise,
                                             state |-> promises[initPromise],
                                             result |-> "awaiting"])
            /\ UNCHANGED <<loaded, initPromise, promises, loadsStarted, setOCCalls>>
       ELSE IF loaded
            THEN /\ received' = Append(received, [promise |-> 0, state |-> "resolved",
                                                  result |-> "awaiting"])
                 /\ UNCHANGED <<loaded, initPromise, promises, loadsStarted, setOCCalls>>
            ELSE /\ promises' = Append(promises, IF throwsImmediately
                                                  THEN "rejected"
                                                  ELSE "pending")
                 /\ initPromise' = Len(promises) + 1
                 /\ loadsStarted' = loadsStarted + 1
                 /\ received' = Append(received, [promise |-> Len(promises) + 1,
                                                  state |-> "started",
                                                  result |-> "awaiting"])
                 /\ UNCHANGED <<loaded, setOCCalls>>
    /\ UNCHANGED <<adjustVars, validateVars, panelVars, containerVars>>

\* the kernel loader resolves: setOC(OC), loaded = true, the promise resolves
LoadSucceeds(p) ==
    /\ p \in 1..Len(promises)
    /\ promises[p] = "pending"
    /\ setOCCalls' = setOCCalls + 1
    /\ loaded' = TRUE
    /\ promises' = [promises EXCEPT ![p] = "resolved"]
    /\ UNCHANGED <<initPromise, received, loadsStarted>>
    /\ UNCHANGED <<adjustVars, validateVars, panelVars, containerVars>>

\* the kernel loader rejects: the catch resets initPromise and rethrows
LoadFails(p) ==
    /\ p \in 1..Len(promises)
    /\ promises[p] = "pending"
    /\ initPromise' = 0
    /\ promises' = [promises EXCEPT ![p] = "rejected"]
    /\ UNCHANGED <<loaded, received, loadsStarted, setOCCalls>>
    /\ UNCHANGED <<adjustVars, validateVars, panelVars, containerVars>>

\* the caller's await of the promise it was given ends: with true when the
\* initialization succeeded, with the error when it failed
AwaitEnds(c) ==
    /\ c \in 1..Len(received)
    /\ received[c].result = "awaiting"
    /\ LET settled == IF received[c].promise = 0
                      THEN "resolved"
                      ELSE promises[received[c].promise]
       IN  /\ settled # "pending"
           /\ received' = [received EXCEPT ![c].result =
                               IF settled = "resolved" THEN "true" ELSE "threw"]
    /\ UNCHANGED <<loaded, initPromise, promises, loadsStarted, setOCCalls>>
    /\ UNCHANGED <<adjustVars, validateVars, panelVars, containerVars>>

NextKernel ==
    \/ \E throwsImmediately \in BOOLEAN : InitReplicadCall(throwsImmediately)
    \/ \E c \in 1..MaxInitCalls : AwaitEnds(c)
    \/ \E p \in 1..MaxInitCalls : LoadSucceeds(p)
    \/ \E p \in 1..MaxInitCalls : LoadFails(p)

SpecKernel == InitKernel /\ [][NextKernel]_vars

NoAttemptFailed == \A p \in 1..Len(promises) : promises[p] # "rejected"

\* C17: as long as no initialization attempt has failed, the kernel loader
\* has been started once for all the initReplicad calls made, every call got
\* the one promise of that initialization, whether made while it was in
\* flight or after it succeeded, and setOC has been called at most once, when
\* the load succeeded.
C17_LoaderStartedOnce ==
    NoAttemptFailed =>
        /\ loadsStarted = IF Len(received) > 0 THEN 1 ELSE 0
        /\ \A c \in 1..Len(received) :
               /\ received[c].promise = 1
               /\ received[c].result = "true" => loaded
        /\ setOCCalls = IF loaded THEN 1 ELSE 0

\* calls made at the start, during and after a successful initialization
C17_Witness ==
    /\ NoAttemptFailed
    /\ \E c \in 1..Len(received) : received[c].state = "started"
    /\ \E c \in 1..Len(received) : received[c].state = "pending"
    /\ \E c \in 1..Len(received) : received[c].state = "resolved"
    /\ \A c \in 1..Len(received) : received[c].result = "true"
    /\ loadsStarted = 1
    /\ setOCCalls = 1

-----------------------------------------------------------------------------
(* Properties of the panel's debounce *)

\* C18: the edits of a burst share one pending timer, which carries the
\* vector as of the last edit; an edit never commits by itself; a commit is a
\* firing of that timer, passes on the vector of the last edit and leaves no
\* timer pending, so a burst is committed at most once.
C18_BurstCommitsOnce ==
    [][ /\ debounceTimer'.set => debounceTimer'.newValues = localValues'
        /\ burst' # burst => /\ debounceTimer'.set
                             /\ UNCHANGED <<parameters, generationIdRef, lastFire>>
        /\ generationIdRef' # generationIdRef
               => /\ debounceTimer.set
                  /\ parameters' = localValues
                  /\ ~debounceTimer'.set
                  /\ UNCHANGED burst
      ]_vars

\* a burst of at least two edits was committed, once, with the vector of its
\* last edit
C18_Witness ==
    /\ burst >= 2
    /\ lastFire = "committed"
    /\ ~debounceTimer.set
    /\ generationIdRef = 2
    /\ parameters = localValues
    /\ requestParams[2] = localValues

-----------------------------------------------------------------------------
(* Properties of ModelContainer's error handling *)

\* the generateModel calls that completed without a mesh: the builder or the
\* kernel threw
Failed == Completed \ threeMeshes

\* C19: when the call holding the latest id completes by throwing, the error
\* is recorded for display, the mesh and shape displayed before stay in
\* place and are not disposed, and loading is cleared; a later parameter
\* change starts a new build all the same (C19_Witness).
C19_FailureKeepsPreviousMesh ==
    [][ \A id \in inflight :
            (id \notin inflight' /\ id = generationIdRef /\ id \notin threeMeshes')
                => /\ error' # ""
                   /\ UNCHANGED <<mesh, shape, previousMeshRef, disposals>>
                   /\ mesh \notin disposals'
                   /\ loading' = FALSE
      ]_vars

\* the first build is displayed, the second failed as the latest and left it
\* in place, and a third, started by a later change, replaced it
C19_Witness ==
    /\ completedOrder = <<1, 2, 3>>
    /\ Failed = {2}
    /\ mesh = 3
    /\ shape = 3
    /\ disposals = {1}
    /\ error = ""

-----------------------------------------------------------------------------
(* Properties of the builders' guards *)

\* the derived quantities of buildHoseAdapter: a negative end section or a
\* radius that is not positive (twice the radii, to stay in whole micrometres)
HoseDegenerate(params) ==
    LET smallInnerRadius2 == params.innerDiameter
        largeInnerRadius2 == params.outerDiameter
    IN  \/ params.length - params.taperLength < 0
        \/ smallInnerRadius2 <= 0
        \/ smallInnerRadius2 + 2 * params.wallThickness <= 0
        \/ largeInnerRadius2 <= 0
        \/ largeInnerRadius2 + 2 * params.wallThickness <= 0

\* the derived quantities of buildDrainStrainer
DrainDegenerate(params) ==
    LET outerRadius2 == params.diameter
        innerRadius2 == outerRadius2 - 2 * params.wallThickness
    IN  \/ outerRadius2 <= 0
        \/ innerRadius2 <= 0
        \/ params.holeDiameter <= 0
        \/ params.depth < 0
        \/ params.rimHeight < 0

\* the derived quantities of buildThreadAdapter
ThreadDegenerate(params) ==
    \/ params.threadADiameter <= 0
    \/ params.threadBDiameter <= 0
    \/ params.threadALength < 0
    \/ params.bodyLength < 0
    \/ params.threadBLength < 0

Degenerate(p, params) ==
    /\ DOMAIN baseSchema(p) \subseteq DOMAIN params
    /\ CASE p = "hoseAdapter"   -> HoseDegenerate(params)
         [] p = "drainStrainer" -> DrainDegenerate(params)
         [] p = "threadAdapter" -> ThreadDegenerate(params)

\* C20: a builder given a vector with a degenerate derived quantity (a
\* negative section length, a radius that is not positive) raises an error
\* instead of returning a solid.
C20_DegenerateRaises ==
    ("build" \in called /\ Degenerate(product, input)) =>
        buildOutcome.status = "threw"

-----------------------------------------------------------------------------
(* Properties of export *)

\* const isExportDisabled = !validation.isValid || isRegenerating || !currentShape,
\* with isRegenerating and currentShape as the container's effects report them
isExportDisabled ==
    \/ ~validateParameters(product, parameters).isValid
    \/ loading
    \/ shape = 0

\* C21: whenever export is enabled, the shape that would be exported was
\* built from the current committed parameter vector, including after a
\* build for a newer vector has failed.
C21_ExportedShapeIsCurrent ==
    (parameters # <<>> /\ ~isExportDisabled) => requestParams[shape] = parameters

\* C22: while the vector entered in the parameter panel fails validation,
\* export is disabled.
C22_InvalidPanelDisablesExport ==
    (parameters # <<>> /\ ~validateParameters(product, localValues).isValid)
        => isExportDisabled

-----------------------------------------------------------------------------
(* Properties of the hose adapter's ridges *)

\* buildHoseAdapter has returned a solid for a complete hose adapter vector
HoseBuilt ==
    /\ "build" \in called
    /\ product = "hoseAdapter"
    /\ HasAll(input, DOMAIN HOSE_ADAPTER_SCHEMA)
    /\ buildOutcome.status = "ok"

\* ring i of an end is centred at i * endLength / (ridgeCount + 1) from the
\* start of its section and has the radius of that end plus ridgeDepth
RingAsDescribed(ring, i, outerDiameter, sectionStart2) ==
    LET centreNum2 == 2 * ring.zNum + ring.height * ring.zDen
    IN  /\ (centreNum2 - sectionStart2 * ring.zDen) * (input.ridgeCount \div mm(1) + 1)
               = 2 * i * buildOutcome.endLength * ring.zDen
        /\ ring.diameter = outerDiameter + 2 * input.ridgeDepth
        /\ ring.height = input.ridgeWidth

\* both ends carry ridgeCount rings, each as described
RidgesAsDescribed ==
    /\ Len(buildOutcome.smallEndRidges) * mm(1) = input.ridgeCount
    /\ Len(buildOutcome.largeEndRidges) * mm(1) = input.ridgeCount
    /\ \A i \in 1..Len(buildOutcome.smallEndRidges) :
           RingAsDescribed(buildOutcome.smallEndRidges[i], i,
                           input.innerDiameter + 2 * input.wallThickness, 0)
    /\ \A i \in 1..Len(buildOutcome.largeEndRidges) :
           RingAsDescribed(buildOutcome.largeEndRidges[i], i,
                           input.outerDiameter + 2 * input.wallThickness,
                           2 * (buildOutcome.endLength + input.taperLength))

NoRidges ==
    /\ buildOutcome.smallEndRidges = <<>>
    /\ buildOutcome.largeEndRidges = <<>>

\* C23 as stated: a built hose adapter with ridgeCount > 0 carries ridgeCount
\* rings on the small end and ridgeCount on the large end, ring i centred at
\* i * endLength / (ridgeCount + 1) from the start of its section with radius
\* outer radius + ridgeDepth; with ridgeCount = 0 it carries none.
C23_RidgesWheneverCounted ==
    HoseBuilt =>
        IF input.ridgeCount > 0 THEN RidgesAsDescribed ELSE NoRidges

\* C23: a built hose adapter with ridgeCount > 0 and ridgeDepth > 0 carries
\* ridgeCount rings on each end, ring i centred at
\* i * endLength / (ridgeCount + 1) from the start of its section with radius
\* outer radius + ridgeDepth; with ridgeCount = 0 or ridgeDepth = 0 it
\* carries none.
C23_RidgesWhenCountedAndDeep ==
    HoseBuilt =>
        IF input.ridgeCount > 0 /\ input.ridgeDepth > 0
        THEN RidgesAsDescribed
        ELSE NoRidges

\* a hose adapter with three ridges per end has been built
C23_Witness ==
    /\ HoseBuilt
    /\ input.ridgeCount = mm(3)
    /\ input.ridgeDepth > 0
    /\ Len(buildOutcome.smallEndRidges) = 3
    /\ Len(buildOutcome.largeEndRidges) = 3

-----------------------------------------------------------------------------
(* Properties of a failed kernel initialization *)

\* isReplicadInitialized()
isReplicadInitialized == loaded

\* C24: when an initialization attempt has failed, every caller that was
\* given its promise and has finished waiting got the error,
\* isReplicadInitialized is true only if some attempt succeeded, and the
\* failed promise is no longer stored, so that the next initReplicad call
\* starts a fresh attempt; whether the loader rejected later or threw at once.
C24_FailureResetsModule ==
    /\ \A c \in 1..Len(received) :
           (/\ received[c].promise # 0
            /\ promises[received[c].promise] = "rejected"
            /\ received[c].result # "awaiting") => received[c].result = "threw"
    /\ isReplicadInitialized => \E p \in 1..Len(promises) : promises[p] = "resolved"
    /\ \A p \in 1..Len(promises) : promises[p] = "rejected" => initPromise # p

-----------------------------------------------------------------------------
(* Properties of mesh disposal over the container's lifetime *)

\* the mesh handed to ModelViewer, none after unmount
DisplayedMesh == IF mounted /\ mesh # 0 THEN {mesh} ELSE {}

\* C25: whenever no generateModel call is in flight, the meshes created and
\* not disposed are exactly the displayed mesh while mounted and none after
\* unmount; no mesh is disposed twice and no disposed mesh is displayed.
C25_UndisposedIsDisplayed ==
    /\ inflight = {} => LiveMeshes = DisplayedMesh
    /\ disposedTwice = {}
    /\ DisplayedMesh \cap disposals = {}

-----------------------------------------------------------------------------
(* Properties relating the resolver and the validator *)

\* every value of the vector is on its parameter's step grid
OnSchemaGrid(p, v) == \A k \in SchemaKeysOf(p, v) : OnGrid(v[k], baseSchema(p)[k])

\* adjustToValidConstraints has returned for a complete vector within the
\* schema bounds and on the step grids
AdjustedSchemaVector ==
    /\ apc = "done"
    /\ run = 1
    /\ InSchemaBounds(product, input)
    /\ OnSchemaGrid(product, input)

\* C26: for a vector within the schema bounds (and on the step grids), the
\* vector adjustToValidConstraints returns passes validateParameters with the
\* product's domain rule.
C26_AdjustedIsValid ==
    AdjustedSchemaVector => validateParameters(product, firstResult).isValid

\* C27: a vector that passes validateParameters is returned unchanged by
\* adjustToValidConstraints with the product's calculator.
C27_ValidIsFixedPoint ==
    (apc = "done" /\ run = 1 /\ validateParameters(product, input).isValid)
        => firstResult = input

\* C28: for a vector within the schema bounds (and on the step grids),
\* adjustToValidConstraints leaves its loop because a full pass recorded no
\* change, never because the pass cap was reached.
C28_LoopEndsAtFixedPoint ==
    AdjustedSchemaVector => ~changed

-----------------------------------------------------------------------------
(* Properties of the drain strainer's domain rule *)

\* validateParameters has been applied to a complete drain strainer vector
\* within the schema bounds
DrainInBoxValidated ==
    /\ "validate" \in called
    /\ product = "drainStrainer"
    /\ InSchemaBounds(product, input)

\* C29: for a drain strainer vector whose values all lie within the schema
\* bounds, validateDrainStrainer returns no error.
C29_DrainRuleVacuousInBox ==
    DrainInBoxValidated =>
        /\ validateDrainStrainer(input) = <<>>
        /\ DomainErrors(validation.errors) = <<>>

\* the corner of the schema box nearest to every check of the rule has been
\* validated: smallest diameter and depth, thickest wall, largest hole, rim
\* and centre post
C29_Witness ==
    /\ DrainInBoxValidated
    /\ input.diameter = DRAIN_STRAINER_SCHEMA.diameter.min
    /\ input.depth = DRAIN_STRAINER_SCHEMA.depth.min
    /\ input.wallThickness = DRAIN_STRAINER_SCHEMA.wallThickness.max
    /\ input.holeDiameter = DRAIN_STRAINER_SCHEMA.holeDiameter.max
    /\ input.rimHeight = DRAIN_STRAINER_SCHEMA.rimHeight.max
    /\ input.centerPost = DRAIN_STRAINER_SCHEMA.centerPost.max
    /\ validation.errors = <<>>

-----------------------------------------------------------------------------
(* Properties of the loading flag *)

\* C30: once every generateModel call issued has completed, in whatever
\* order and with whatever outcome, loading is false; and as long as the call
\* holding the latest id is in flight loading stays true, whichever
\* superseded calls complete meanwhile.
C30_LoadingFollowsLatest ==
    /\ inflight = {} => ~loading
    /\ generationIdRef \in inflight => loading

\* a superseded call has completed, its mesh disposed on arrival, while the
\* latest call is still in flight and loading is shown
C30_Witness ==
    /\ mounted
    /\ generationIdRef \in inflight
    /\ loading
    /\ \E id \in Completed :
           /\ id < generationIdRef
           /\ id \in disposals
           /\ id # previousMeshRef
           /\ mesh = 0

====
